---- MODULE Spec2Model ----
(***************************************************************************)
(* Model of src/src/App.jsx (OnchainDojo): the day-keyed challenge cache,  *)
(* the 3-attempt generation loop of loadOrGenerateChallenge, the handlers   *)
(* that start it (the apiKey/offsetDays effect, changeDay, RETRY,           *)
(* REGENERATE, a page load), generateThread and the streak/history ledger   *)
(* kept in localStorage.                                                    *)
(*                                                                          *)
(* Abstractions.  The wall clock is a whole number of days elapsed since    *)
(* the epoch 2025-01-01 (UTC); todayKey() is the ISO date of that day.      *)
(* A JSON value is abstracted to its JavaScript type, its length and the    *)
(* type of its elements, which is all that the truthiness checks of the     *)
(* code and the shape requirements of the specification look at; the text   *)
(* of one generated document is identified by the number in "body".         *)
(* localStorage is a reliable string store: JSON.stringify followed by      *)
(* JSON.parse gives back the records used here unchanged, so the store      *)
(* holds the records themselves.                                            *)
(***************************************************************************)
EXTENDS Integers, Sequences, FiniteSets, TLC

\* ------------------------------------------------------------------ bounds
StartDay == 30
MaxClockSpan == 1
MaxLedgerSpan == 4
MaxHistorySpan == 60
MaxOffset == 1
MaxObtains == 2
MaxAssignDay == 20
MaxAssignOffset == 3

\* ------------------------------------------------------- program constants
\* a loop that runs one round too many
MaxAttemptsFour == 3 + 1

MaxAttempts == 3
BackoffMs == 1000
HistoryCap == 60
AnalysisCap == 120
EpochYear == 2025

\* the days the clock can show in some specification
ClockDays == StartDay .. (StartDay + MaxClockSpan + MaxLedgerSpan)
Offsets == (0 - MaxOffset) .. MaxOffset

\* ------------------------------------------------------------ calendar
IsLeap(y) == (y % 4 = 0 /\ y % 100 # 0) \/ y % 400 = 0

DaysInYear(y) == IF IsLeap(y) THEN 366 ELSE 365

DaysInMonth(y, m) ==
    IF m = 2 THEN (IF IsLeap(y) THEN 29 ELSE 28)
    ELSE IF m \in {4, 6, 9, 11} THEN 30 ELSE 31

RECURSIVE YearOf(_, _)
YearOf(y, d) ==
    IF d < 0 THEN YearOf(y - 1, d + DaysInYear(y - 1))
    ELSE IF d >= DaysInYear(y) THEN YearOf(y + 1, d - DaysInYear(y))
    ELSE <<y, d>>

RECURSIVE MonthOf(_, _, _)
MonthOf(y, m, d) ==
    IF d >= DaysInMonth(y, m) THEN MonthOf(y, m + 1, d - DaysInMonth(y, m))
    ELSE <<m, d + 1>>

Pad2(n) == IF n < 10 THEN "0" \o ToString(n) ELSE ToString(n)

\* new Date(epoch + d days).toISOString().slice(0, 10)
toISODate(d) ==
    LET yd == YearOf(EpochYear, d)
        md == MonthOf(yd[1], 1, yd[2])
    IN  ToString(yd[1]) \o "-" \o Pad2(md[1]) \o "-" \o Pad2(md[2])

\* the dates of the days around the explored clock range, computed once
DateTable ==
    [d \in (StartDay - 3) .. (StartDay + MaxClockSpan + MaxLedgerSpan + MaxHistorySpan)
        |-> toISODate(d)]

IsoDate(d) == IF d \in DOMAIN DateTable THEN DateTable[d] ELSE toISODate(d)

todayKey(clk) == IsoDate(clk)

getDayNumber(clk) == clk + 1

\* ------------------------------------------------------------ assignment
CATEGORIES ==
    << [id |-> "btc",   label |-> "BTC Fundamentals"],
       [id |-> "eth",   label |-> "ETH Fundamentals"],
       [id |-> "whale", label |-> "Whale Tracking"],
       [id |-> "defi",  label |-> "DeFi Analytics"],
       [id |-> "nft",   label |-> "NFT Markets"],
       [id |-> "l2",    label |-> "L2 & Mempool"],
       [id |-> "macro", label |-> "Cross-Chain Macro"] >>

DIFFICULTIES == <<"Beginner", "Intermediate", "Advanced">>

UndefinedCat == [id |-> "undefined", label |-> "undefined"]

\* JavaScript's % takes the sign of the dividend
JsRem(a, n) == IF a >= 0 THEN a % n ELSE 0 - ((0 - a) % n)

\* Math.floor(a / n) for n > 0
JsFloorDiv(a, n) == a \div n

\* arr[i] with JavaScript's 0-based index; out of range gives undefined
JsIndex(arr, i, undef) == IF i \in 0 .. (Len(arr) - 1) THEN arr[i + 1] ELSE undef

\* an assignment that takes the difficulty from the day instead of the week
getTodayMetaDiffByDay(clk, offsetDays) ==
    LET day == getDayNumber(clk) + offsetDays
    IN  [cat  |-> JsIndex(CATEGORIES, JsRem(day, Len(CATEGORIES)), UndefinedCat),
         diff |-> JsIndex(DIFFICULTIES, JsRem(day, Len(DIFFICULTIES)), "undefined"),
         day  |-> day]

getTodayMeta(clk, offsetDays) ==
    LET day == getDayNumber(clk) + offsetDays
    IN  [cat  |-> JsIndex(CATEGORIES, JsRem(day, Len(CATEGORIES)), UndefinedCat),
         diff |-> JsIndex(DIFFICULTIES,
                          JsRem(JsFloorDiv(day, Len(CATEGORIES)), Len(DIFFICULTIES)),
                          "undefined"),
         day  |-> day]

\* the dateKey of loadOrGenerateChallenge
DateKey(clk, offset) ==
    IF offset = 0 THEN todayKey(clk)
    ELSE "offset_" \o ToString(getDayNumber(clk) + offset)

\* ------------------------------------------------------------ JSON values
\* A JSON value as JavaScript holds it: its type, its length (for a number,
\* its value), the kind of its elements and the elements themselves (the
\* characters of a string, the values of an array, the members of an object).
StrVal(chars) == [type |-> "string", len |-> Len(chars), elem |-> "none", items |-> chars]

ArrVal(vals) ==
    [type |-> "array", len |-> Len(vals),
     elem |-> IF vals = <<>> THEN "none"
              ELSE IF \A i \in DOMAIN vals : vals[i].type = "string" THEN "string"
              ELSE "mixed",
     items |-> vals]

ObjVal(members) == [type |-> "object", len |-> Len(members), elem |-> "member", items |-> members]

NumVal(n) == [type |-> "number", len |-> n, elem |-> "none", items |-> <<>>]

BoolVal(b) == [type |-> "boolean", len |-> IF b THEN 1 ELSE 0, elem |-> "none", items |-> <<>>]

NullVal == [type |-> "null", len |-> 0, elem |-> "none", items |-> <<>>]

JStr      == StrVal(<<"text">>)
JUndef    == [type |-> "undefined", len |-> 0, elem |-> "none", items |-> <<>>]
JStrArr   == ArrVal(<<JStr>>)
JEmptyArr == ArrVal(<<>>)

\* JavaScript truthiness: "", 0, false, undefined and null are falsy, every
\* array and every object is truthy
Truthy(v) ==
    CASE v.type = "string"    -> v.len > 0
      [] v.type = "number"    -> v.len # 0
      [] v.type = "boolean"   -> v.len # 0
      [] v.type = "array"     -> TRUE
      [] v.type = "object"    -> TRUE
      [] OTHER                -> FALSE

IsString(v) == v.type = "string"

IsStringArray(v) == v.type = "array" /\ (v.len = 0 \/ v.elem = "string")

\* the word that stands for the text the service writes for generation b
Word(b) == "text" \o ToString(b)

\* a JSON document that follows the requested structure; b identifies its text
GoodDoc(b) ==
    [type |-> "object", body |-> b,
     title |-> StrVal(<<Word(b)>>), problem |-> JStr, hints |-> JStrArr,
     keyMetrics |-> JStrArr, tools |-> JStrArr, teachingPoint |-> JStr]

NullDoc ==
    [type |-> "null", body |-> 0,
     title |-> JUndef, problem |-> JUndef, hints |-> JUndef,
     keyMetrics |-> JUndef, tools |-> JUndef, teachingPoint |-> JUndef]

\* documents the service may answer with for the call that generates text b
Docs(b) ==
    { GoodDoc(b),
      [GoodDoc(b) EXCEPT !.tools = JUndef],
      [GoodDoc(b) EXCEPT !.hints = JEmptyArr] }

\* ------------------------------------------------------------ text
\* A text is a sequence of characters.  A run of characters that none of the
\* patterns of parseGeminiJSON tells apart (a word, a number) is one element,
\* and so is a code fence.
LBrace    == "{"
RBrace    == "}"
LBracket  == "["
RBracket  == "]"
Colon     == ":"
Comma     == ","
Quote     == "\""
Backslash == "\\"
Space     == " "
NL        == "\n"
CR        == "\r"
\* a fence is the run of three backquotes, alone or followed by json
Fence     == "<fence>"
FenceJson == "<fence>json"

\* \s of the patterns, and the white space of JSON
IsSpace(ch) == ch \in {Space, NL, CR}

\* the value of body for v the value of x, x evaluated once
Let(x, body(_)) == CHOOSE r \in { body(v) : v \in {x} } : TRUE

Lowest(S) == Let(S, LAMBDA T : CHOOSE x \in T : \A y \in T : x <= y)

Highest(S) == Let(S, LAMBDA T : CHOOSE x \in T : \A y \in T : x >= y)

\* the elements of s at the indexes of keep, in order
Kept(pair) == pair[2]

Pick(s, keep) ==
    Let(keep, LAMBDA K :
    Let(SelectSeq([i \in 1 .. Len(s) |-> <<s[i], i \in K>>], Kept), LAMBDA marked :
        [k \in 1 .. Len(marked) |-> marked[k][1]]))

\* the first index from i on that holds no white space
RECURSIVE SkipSpace(_, _)
SkipSpace(s, i) == IF i <= Len(s) /\ IsSpace(s[i]) THEN SkipSpace(s, i + 1) ELSE i

\* indexOf from i, 1-based, 0 for -1
IndexFrom(s, ch, i) ==
    Let({j \in i .. Len(s) : s[j] = ch}, LAMBDA at : IF at = {} THEN 0 ELSE Lowest(at))

\* lastIndexOf, 1-based, 0 for -1
LastIndexOf(s, ch) ==
    Let({j \in 1 .. Len(s) : s[j] = ch}, LAMBDA at : IF at = {} THEN 0 ELSE Highest(at))

\* s.replace(/<fence>\s*/g, ""): the fences go, and with each the white
\* space that follows it
StripFence(s, fence) ==
    Pick(s, {i \in 1 .. Len(s) :
                /\ s[i] # fence
                /\ ~ \E f \in 1 .. (i - 1) :
                        s[f] = fence /\ \A k \in (f + 1) .. i : IsSpace(s[k])})

\* s.trim()
Trim(s) ==
    Let({j \in 1 .. Len(s) : ~IsSpace(s[j])}, LAMBDA ink :
        IF ink = {} THEN <<>> ELSE SubSeq(s, Lowest(ink), Highest(ink)))

\* cleaned.match(/\{[\s\S]*\}/): the widest span from the first { to the last }
BraceMatch(s) ==
    Let(IndexFrom(s, LBrace, 1), LAMBDA i :
    Let(LastIndexOf(s, RBrace), LAMBDA j :
        IF i > 0 /\ j > i THEN SubSeq(s, i, j) ELSE s))

\* cleaned.substring(indexOf, lastIndexOf + 1) when both exist; substring
\* swaps its arguments when the first is the larger
BraceSubstring(s) ==
    Let(IndexFrom(s, LBrace, 1), LAMBDA i :
    Let(LastIndexOf(s, RBrace), LAMBDA j :
        IF i = 0 \/ j = 0 THEN s
        ELSE IF i <= j THEN SubSeq(s, i, j)
        ELSE SubSeq(s, j + 1, i - 1)))

\* is index i within a match of /"([^"]*?)"/g: the matches run from the
\* first quote character to the second, from the third to the fourth and so
\* on, escaped or not
InQuotedSpan(s, i) ==
    /\ s[i] # Quote
    /\ Cardinality({j \in 1 .. (i - 1) : s[j] = Quote}) % 2 = 1
    /\ \E j \in (i + 1) .. Len(s) : s[j] = Quote

\* lines 60-64: within each match, \n becomes a space and \r goes
FixQuoted(s) ==
    Let([i \in 1 .. Len(s) |-> IF s[i] = NL /\ InQuotedSpan(s, i) THEN Space ELSE s[i]],
        LAMBDA spaced :
            Pick(spaced, {i \in 1 .. Len(s) : ~(s[i] = CR /\ InQuotedSpan(s, i))}))

\* ------------------------------------------------------------ JSON.parse
\* the result of a parsing step: a value and the index after it, or the
\* message of the SyntaxError (positions count elements, from 0)
ParseOk(v, next) == [ok |-> TRUE, value |-> v, next |-> next, message |-> ""]

ParseFail(m) == [ok |-> FALSE, value |-> NullVal, next |-> 0, message |-> m]

EndOfInput == ParseFail("Unexpected end of JSON input")

Unexpected(s, i) ==
    ParseFail("Unexpected token " \o s[i] \o " in JSON at position " \o ToString(i - 1))

\* the literals of JSON among the words
Literals ==
    [w \in {"null", "true", "false", "0", "42"} |->
        CASE w = "null"  -> NullVal
          [] w = "true"  -> BoolVal(TRUE)
          [] w = "false" -> BoolVal(FALSE)
          [] w = "0"     -> NumVal(0)
          [] w = "42"    -> NumVal(42)]

\* the characters of a string literal, from the one after its opening quote
RECURSIVE ScanString(_, _, _)
ScanString(s, j, acc) ==
    IF j > Len(s) THEN ParseFail("Unterminated string in JSON at position " \o ToString(Len(s)))
    ELSE IF s[j] = Quote THEN ParseOk(StrVal(acc), j + 1)
    ELSE IF s[j] \in {NL, CR}
    THEN ParseFail("Bad control character in string literal in JSON at position "
                   \o ToString(j - 1))
    ELSE IF s[j] = Backslash
    THEN IF j + 1 <= Len(s) /\ s[j + 1] \in {Quote, Backslash}
         THEN ScanString(s, j + 2, Append(acc, s[j + 1]))
         ELSE ParseFail("Bad escaped character in JSON at position " \o ToString(j))
    ELSE ScanString(s, j + 1, Append(acc, s[j]))

RECURSIVE ParseValue(_, _)
RECURSIVE ParseElements(_, _, _, _)
RECURSIVE ParseMembers(_, _, _, _)

ParseValue(s, i) ==
    Let(SkipSpace(s, i), LAMBDA j :
        IF j > Len(s) THEN EndOfInput
        ELSE IF s[j] = LBrace THEN ParseMembers(s, SkipSpace(s, j + 1), <<>>, TRUE)
        ELSE IF s[j] = LBracket THEN ParseElements(s, SkipSpace(s, j + 1), <<>>, TRUE)
        ELSE IF s[j] = Quote THEN ScanString(s, j + 1, <<>>)
        ELSE IF s[j] \in DOMAIN Literals THEN ParseOk(Literals[s[j]], j + 1)
        ELSE Unexpected(s, j))

\* the elements of an array from index i on (white space skipped); first is
\* TRUE right after the opening bracket
ParseElements(s, i, acc, first) ==
    IF i > Len(s) THEN EndOfInput
    ELSE IF first /\ s[i] = RBracket THEN ParseOk(ArrVal(acc), i + 1)
    ELSE Let(ParseValue(s, i), LAMBDA v :
         IF ~v.ok THEN v
         ELSE Let(SkipSpace(s, v.next), LAMBDA k :
              IF k > Len(s) THEN EndOfInput
              ELSE IF s[k] = Comma
              THEN ParseElements(s, SkipSpace(s, k + 1), Append(acc, v.value), FALSE)
              ELSE IF s[k] = RBracket THEN ParseOk(ArrVal(Append(acc, v.value)), k + 1)
              ELSE Unexpected(s, k)))

\* the members of an object, likewise
ParseMembers(s, i, acc, first) ==
    IF i > Len(s) THEN EndOfInput
    ELSE IF first /\ s[i] = RBrace THEN ParseOk(ObjVal(acc), i + 1)
    ELSE IF s[i] # Quote THEN Unexpected(s, i)
    ELSE Let(ScanString(s, i + 1, <<>>), LAMBDA key :
         IF ~key.ok THEN key
         ELSE Let(SkipSpace(s, key.next), LAMBDA c :
              IF c > Len(s) THEN EndOfInput
              ELSE IF s[c] # Colon THEN Unexpected(s, c)
              ELSE Let(ParseValue(s, c + 1), LAMBDA v :
                   IF ~v.ok THEN v
                   ELSE Let(SkipSpace(s, v.next), LAMBDA k :
                        IF k > Len(s) THEN EndOfInput
                        ELSE IF s[k] = Comma
                        THEN ParseMembers(s, SkipSpace(s, k + 1),
                                          Append(acc, <<key.value.items, v.value>>), FALSE)
                        ELSE IF s[k] = RBrace
                        THEN ParseOk(ObjVal(Append(acc, <<key.value.items, v.value>>)), k + 1)
                        ELSE Unexpected(s, k)))))

\* JSON.parse(text)
JSONparse(text) ==
    Let(text, LAMBDA s :
    Let(ParseValue(s, 1), LAMBDA v :
        IF ~v.ok THEN v
        ELSE Let(SkipSpace(s, v.next), LAMBDA k :
             IF k <= Len(s) THEN Unexpected(s, k) ELSE v)))

\* ------------------------------------------------------------ documents
REQUIRED == <<"title", "problem", "hints", "keyMetrics", "tools", "teachingPoint">>

\* value.<name> for a parsed value: the last member of that name, else undefined
RECURSIVE MemberFrom(_, _, _)
MemberFrom(members, name, i) ==
    IF i < 1 THEN JUndef
    ELSE IF members[i][1] = <<name>> THEN members[i][2]
    ELSE MemberFrom(members, name, i - 1)

Field(v, name) == IF v.type = "object" THEN MemberFrom(v.items, name, v.len) ELSE JUndef

\* the generation whose text a title carries
Bodies == 0 .. (MaxObtains + 1)

BodyOf(title) ==
    Let({b \in Bodies : title = StrVal(<<Word(b)>>)}, LAMBDA named :
        IF named = {} THEN 0 ELSE Lowest(named))

\* a parsed value as the generation loop reads it: its type and its six fields
AsDoc(value) ==
    Let(value, LAMBDA v :
        [type |-> v.type, body |-> BodyOf(Field(v, "title")),
         title |-> Field(v, "title"), problem |-> Field(v, "problem"),
         hints |-> Field(v, "hints"), keyMetrics |-> Field(v, "keyMetrics"),
         tools |-> Field(v, "tools"), teachingPoint |-> Field(v, "teachingPoint")])

\* the text of a value as JSON.stringify writes it, without white space
RECURSIVE WriteChars(_, _)
WriteChars(chars, i) ==
    IF i > Len(chars) THEN <<>>
    ELSE (IF chars[i] \in {Quote, Backslash} THEN <<Backslash, chars[i]>> ELSE <<chars[i]>>)
         \o WriteChars(chars, i + 1)

RECURSIVE WriteValue(_)
RECURSIVE WriteItems(_, _)
WriteValue(v) ==
    IF v.type = "string" THEN <<Quote>> \o WriteChars(v.items, 1) \o <<Quote>>
    ELSE IF v.type = "array" THEN <<LBracket>> \o WriteItems(v.items, 1) \o <<RBracket>>
    ELSE IF v.type = "number" THEN <<ToString(v.len)>>
    ELSE IF v.type = "boolean" THEN <<IF v.len = 1 THEN "true" ELSE "false">>
    ELSE <<"null">>

WriteItems(vals, i) ==
    IF i > Len(vals) THEN <<>>
    ELSE WriteValue(vals[i]) \o (IF i < Len(vals) THEN <<Comma>> ELSE <<>>)
         \o WriteItems(vals, i + 1)

\* the members of a document, "name": value, separated by sep; a field that
\* is undefined is left out
RECURSIVE WriteFields(_, _, _, _)
WriteFields(d, i, sep, started) ==
    IF i > Len(REQUIRED) THEN <<>>
    ELSE IF d[REQUIRED[i]].type = "undefined" THEN WriteFields(d, i + 1, sep, started)
    ELSE (IF started THEN sep ELSE <<>>)
         \o <<Quote, REQUIRED[i], Quote, Colon>> \o WriteValue(d[REQUIRED[i]])
         \o WriteFields(d, i + 1, sep, TRUE)

\* JSON.stringify of a document
Stringify(d) == <<LBrace>> \o WriteFields(d, 1, <<Comma>>, FALSE) \o <<RBrace>>

\* ------------------------------------------------------------ parseGeminiJSON
\* line 35: both fence replacements, then trim
CleanFences(raw) ==
    Let(StripFence(raw, FenceJson), LAMBDA a :
    Let(StripFence(a, Fence), LAMBDA b : Trim(b)))

\* does "name"\s*:\s* match at index i; the index after it, else 0
AfterKey(s, name, i) ==
    IF i + 2 <= Len(s) /\ s[i] = Quote /\ s[i + 1] = name /\ s[i + 2] = Quote
    THEN Let(SkipSpace(s, i + 3), LAMBDA c :
         IF c <= Len(s) /\ s[c] = Colon THEN SkipSpace(s, c + 1) ELSE 0)
    ELSE 0

\* "name"\s*:\s*"([^"]+)" at index i: the indexes of the two quotes around
\* the capture, which holds one character at least
StringFieldAt(s, name, i) ==
    Let(AfterKey(s, name, i), LAMBDA q :
    Let(IF q > 0 /\ q <= Len(s) /\ s[q] = Quote THEN IndexFrom(s, Quote, q + 1) ELSE 0,
        LAMBDA k : IF q > 0 /\ k > q + 1 THEN <<q, k>> ELSE <<0, 0>>))

\* "name"\s*:\s*\[(.*?)\] at index i: the indexes of the bracket and of the
\* first closing bracket after it, no line terminator between them
ArrayFieldAt(s, name, i) ==
    Let(AfterKey(s, name, i), LAMBDA q :
    Let(IF q > 0 /\ q <= Len(s) /\ s[q] = LBracket THEN IndexFrom(s, RBracket, q + 1) ELSE 0,
        LAMBDA k :
            IF q > 0 /\ k > 0 /\ \A j \in (q + 1) .. (k - 1) : s[j] \notin {NL, CR}
            THEN <<q, k>> ELSE <<0, 0>>))

\* s.match(pattern): the capture of the leftmost match
MatchField(s, name, At(_, _, _)) ==
    Let({i \in 1 .. Len(s) : s[i] = Quote /\ At(s, name, i) # <<0, 0>>}, LAMBDA starts :
        IF starts = {} THEN [found |-> FALSE, capture |-> <<>>]
        ELSE Let(At(s, name, Lowest(starts)), LAMBDA span :
                 [found |-> TRUE, capture |-> SubSeq(s, span[1] + 1, span[2] - 1)]))

MatchStringField(s, name) == MatchField(s, name, StringFieldAt)

MatchArrayField(s, name) == MatchField(s, name, ArrayFieldAt)

\* lines 44-46
Tier1(cleaned) == JSONparse(cleaned)

\* lines 50-64: the text the second attempt parses
Tier2Text(cleaned) == Let(BraceSubstring(cleaned), LAMBDA cut : FixQuoted(cut))

\* lines 50-66
Tier2(cleaned) == JSONparse(Tier2Text(cleaned))

\* the record of the six captures, the bracketed ones parsed
Rebuilt(title, problem, hints, metrics, tools, teaching) ==
    IF ~hints.ok THEN ParseFail(hints.message)
    ELSE IF ~metrics.ok THEN ParseFail(metrics.message)
    ELSE IF ~tools.ok THEN ParseFail(tools.message)
    ELSE ParseOk(ObjVal(<< <<<<"title">>, StrVal(title)>>,
                           <<<<"problem">>, StrVal(problem)>>,
                           <<<<"hints">>, hints.value>>,
                           <<<<"keyMetrics">>, metrics.value>>,
                           <<<<"tools">>, tools.value>>,
                           <<<<"teachingPoint">>, StrVal(teaching)>> >>), 0)

\* lines 72-93, on the text the second attempt left in cleaned: the record
\* of the six captures; nothing when a pattern does not match; when a
\* bracketed capture does not parse, the message of the error that is caught
Tier3(text) ==
    Let(text, LAMBDA cleaned2 :
    Let([title         |-> MatchStringField(cleaned2, "title"),
         problem       |-> MatchStringField(cleaned2, "problem"),
         hints         |-> MatchArrayField(cleaned2, "hints"),
         keyMetrics    |-> MatchArrayField(cleaned2, "keyMetrics"),
         tools         |-> MatchArrayField(cleaned2, "tools"),
         teachingPoint |-> MatchStringField(cleaned2, "teachingPoint")], LAMBDA m :
        IF \E name \in DOMAIN m : ~m[name].found THEN ParseFail("")
        ELSE Let(<<JSONparse(<<LBracket>> \o m.hints.capture \o <<RBracket>>),
                   JSONparse(<<LBracket>> \o m.keyMetrics.capture \o <<RBracket>>),
                   JSONparse(<<LBracket>> \o m.tools.capture \o <<RBracket>>)>>, LAMBDA arrays :
                 Rebuilt(m.title.capture, m.problem.capture, arrays[1], arrays[2],
                         arrays[3], m.teachingPoint.capture))))

\* the message of the error parseGeminiJSON throws around a parser message
ParseError(m) == "Failed to parse JSON: " \o m \o ". Check console for details."

\* a cascade that prefers the last attempt
CascadeLastWins(first, second, third) ==
    IF third.ok
    THEN [threw |-> FALSE, message |-> "", value |-> third.value, tiers |-> <<1, 2, 3>>]
    ELSE IF second.ok
    THEN [threw |-> FALSE, message |-> "", value |-> second.value, tiers |-> <<1, 2>>]
    ELSE IF first.ok
    THEN [threw |-> FALSE, message |-> "", value |-> first.value, tiers |-> <<1>>]
    ELSE [threw |-> TRUE, value |-> NullVal, tiers |-> <<1, 2, 3>>,
          message |-> ParseError(first.message)]

\* a cascade that reports the message of the second attempt
CascadeSecondMessage(first, second, third) ==
    IF first.ok
    THEN [threw |-> FALSE, message |-> "", value |-> first.value, tiers |-> <<1>>]
    ELSE IF second.ok
    THEN [threw |-> FALSE, message |-> "", value |-> second.value, tiers |-> <<1, 2>>]
    ELSE IF third.ok
    THEN [threw |-> FALSE, message |-> "", value |-> third.value, tiers |-> <<1, 2, 3>>]
    ELSE [threw |-> TRUE, value |-> NullVal, tiers |-> <<1, 2, 3>>,
          message |-> ParseError(second.message)]

\* the cascade over given attempts: the value of the first that succeeds and
\* the attempts made, or the error with the message of the first attempt
Cascade(first, second, third) ==
    IF first.ok
    THEN [threw |-> FALSE, message |-> "", value |-> first.value, tiers |-> <<1>>]
    ELSE IF second.ok
    THEN [threw |-> FALSE, message |-> "", value |-> second.value, tiers |-> <<1, 2>>]
    ELSE IF third.ok
    THEN [threw |-> FALSE, message |-> "", value |-> third.value, tiers |-> <<1, 2, 3>>]
    ELSE [threw |-> TRUE, value |-> NullVal, tiers |-> <<1, 2, 3>>,
          message |-> ParseError(first.message)]

parseGeminiJSON(raw) ==
    Let(BraceMatch(CleanFences(raw)), LAMBDA cleaned :
    Let(<<Tier1(cleaned), Tier2(cleaned), Tier3(Tier2Text(cleaned))>>, LAMBDA attempt :
        Cascade(attempt[1], attempt[2], attempt[3])))

\* ------------------------------------------------------------ completions
\* raw completion text: a JSON document, free prose, or nothing
JsonText(d) == IF d.type = "null" THEN <<"null">> ELSE Stringify(d)

ProseText == <<"Sorry", Space, "I", Space, "cannot", Space, "help">>

EmptyText == <<>>

\* a thread answer of n tweets
TweetMark == "---TWEET---"

ThreadText(n) == [i \in 1 .. (2 * n - 1) |-> IF i % 2 = 1 THEN "tweet" ELSE TweetMark]

\* raw.split("---TWEET---").map(t => t.trim()).filter(Boolean) of line 461:
\* the pieces between the marks, trimmed, without the empty ones
SplitTweets(raw) ==
    Let({0, Len(raw) + 1} \cup {i \in 1 .. Len(raw) : raw[i] = TweetMark}, LAMBDA cuts :
    Let([b \in cuts \ {Len(raw) + 1} |->
            Trim(SubSeq(raw, b + 1, Lowest({m \in cuts : m > b}) - 1))], LAMBDA piece :
    Let({b \in DOMAIN piece : piece[b] # <<>>}, LAMBDA kept :
        [k \in 1 .. Cardinality(kept) |->
            piece[CHOOSE b \in kept : Cardinality({x \in kept : x <= b}) = k]])))

\* a document wrapped in a json fence
Fenced(t) == <<FenceJson, NL>> \o t \o <<NL, Fence>>

\* a document on several lines, every array element on a line of its own
RECURSIVE PrettyItems(_, _)
PrettyItems(vals, i) ==
    IF i > Len(vals) THEN <<>>
    ELSE <<NL, Space>> \o WriteValue(vals[i]) \o (IF i < Len(vals) THEN <<Comma>> ELSE <<>>)
         \o PrettyItems(vals, i + 1)

PrettyValue(v) ==
    IF v.type = "array" /\ v.len > 0
    THEN <<LBracket>> \o PrettyItems(v.items, 1) \o <<NL, RBracket>>
    ELSE WriteValue(v)

RECURSIVE PrettyFields(_, _)
PrettyFields(d, i) ==
    IF i > Len(REQUIRED) THEN <<>>
    ELSE <<Quote, REQUIRED[i], Quote, Colon, Space>> \o PrettyValue(d[REQUIRED[i]])
         \o (IF i < Len(REQUIRED) THEN <<Comma, NL>> ELSE <<>>)
         \o PrettyFields(d, i + 1)

Pretty(d) == <<LBrace, NL>> \o PrettyFields(d, 1) \o <<NL, RBrace>>

\* the fields of a document without the braces around them, a field a line
Bare(d) == WriteFields(d, 1, <<Comma, NL>>, FALSE)

\* string values as the service may write them: with an escaped quote, with
\* a fence, with a raw line feed, with a raw CR LF, with an escaped quote
\* followed by a raw line feed
WithQuote   == StrVal(<<"say", Space, Quote, "hi">>)
WithFence   == StrVal(<<"run", Space, Fence, "sql", Space, "x", Fence, Space, "now">>)
TwoLines    == StrVal(<<"line1", NL, "line2">>)
TwoLinesCR  == StrVal(<<"line1", CR, NL, "line2">>)
QuoteThenNL == StrVal(<<"say", Space, Quote, "hi", NL, "there">>)

\* the completions for the call that generates text b
\*   well-formed documents, with and without the required fields
WellFormedTexts(b) ==
    { JsonText(d) : d \in Docs(b) } \cup
    { JsonText([GoodDoc(b) EXCEPT !.problem = v]) : v \in {WithQuote, WithFence, StrVal(<<>>)} } \cup
    { JsonText(NullDoc), JsonText([GoodDoc(b) EXCEPT !.title = StrVal(<<>>)]) }

\*   a well-formed document inside a fence, with prose around it
WrappedTexts(b) ==
    { Fenced(JsonText(GoodDoc(b))),
      <<"Here", Space, "it", Space, "is", Colon, NL>> \o Fenced(JsonText(GoodDoc(b)))
          \o <<NL, "Good", Space, "luck">>,
      <<"Fill", Space, "in", Space, LBrace, "name", RBrace, Space, "below", NL>>
          \o Fenced(JsonText(GoodDoc(b))),
      <<"Fill", Space, "in", Space, LBrace, "name", RBrace, Space, "below", NL>>
          \o Fenced(Pretty(GoodDoc(b))) }

\*   a document whose string values hold raw line breaks
BrokenLineTexts(b) ==
    { Stringify([GoodDoc(b) EXCEPT !.problem = v]) : v \in {TwoLines, TwoLinesCR, QuoteThenNL} }

\*   six fields and no braces around them
BareTexts(b) ==
    { Bare(GoodDoc(b)),
      Bare([GoodDoc(b) EXCEPT !.tools = JUndef]),
      Bare([GoodDoc(b) EXCEPT !.teachingPoint = JUndef]),
      WriteFields(GoodDoc(b), 1, <<Comma, Space>>, FALSE),
      PrettyFields(GoodDoc(b), 1) }

\* the text t with the quotes around the word w left out
Unquoted(text, w) ==
    Let(text, LAMBDA t :
        Pick(t, {i \in 1 .. Len(t) :
                    ~(t[i] = Quote /\ ((i > 1 /\ t[i - 1] = w) \/ (i < Len(t) /\ t[i + 1] = w)))}))

\* a document with a raw line break in a string and a bare word for an
\* array element: each of the three attempts fails on it in its own way
ThreeFaults(b) ==
    Unquoted(Stringify([GoodDoc(b) EXCEPT !.problem = TwoLines,
                                          !.hints = ArrVal(<<StrVal(<<"oops">>)>>)]), "oops")

\*   text with other faults: prose, nothing, a comma after the last member,
\*   a line break and a comma in a document that lacks a field, a line break
\*   and a bare word for an array element
FaultyTexts(b) ==
    { ProseText, EmptyText,
      <<LBrace>> \o WriteFields(GoodDoc(b), 1, <<Comma, Space>>, FALSE) \o <<Comma, RBrace>>,
      <<LBrace>> \o WriteFields([GoodDoc(b) EXCEPT !.problem = TwoLines, !.tools = JUndef],
                                1, <<Comma, Space>>, FALSE) \o <<Comma, RBrace>>,
      ThreeFaults(b) }

RecoverTexts(b) ==
    WellFormedTexts(b) \cup WrappedTexts(b) \cup BrokenLineTexts(b)
        \cup BareTexts(b) \cup FaultyTexts(b)

\* ------------------------------------------------------------ the service
Unreachable  == [kind |-> "unreachable", status |-> 0,   envelope |-> "",
                 candidates |-> FALSE, text |-> EmptyText]
HttpError(st, env) == [kind |-> "http", status |-> st, envelope |-> env,
                 candidates |-> FALSE, text |-> EmptyText]
NoCandidates == [kind |-> "http", status |-> 200, envelope |-> "",
                 candidates |-> FALSE, text |-> EmptyText]
Completion(t) == [kind |-> "http", status |-> 200, envelope |-> "",
                 candidates |-> TRUE, text |-> t]

\* what the service may do with a request for a challenge
ChallengeAnswers(b) ==
    {Unreachable, Completion(ProseText)}
        \cup { Completion(JsonText(d)) : d \in Docs(b) }

ChallengeTable == [b \in Bodies |-> ChallengeAnswers(b)]

ChallengeResponses(b) == ChallengeTable[b]

\* what the service may do with a request for feedback
FeedbackResponses ==
    {Unreachable, Completion(ProseText)}

\* what the service may do with a request for a thread
ThreadResponses ==
    {HttpError(503, ""), NoCandidates, Completion(ThreadText(5))}

\* what the service may do with the test request of the key form: every
\* listed status with and without an error envelope, with and without a
\* candidate, or no answer at all
CallStatuses == {200, 201, 204, 299, 300, 304, 400, 401, 403, 404, 429, 500, 503}

CallEnvelopes == {"", "API key not valid. Please pass a valid API key.",
                  "Resource has been exhausted (e.g. check quota)."}

CallResponses ==
    {Unreachable} \cup
    { [kind |-> "http", status |-> st, envelope |-> env, candidates |-> cand,
       text |-> IF cand THEN ProseText ELSE EmptyText] :
         st \in CallStatuses, env \in CallEnvelopes, cand \in BOOLEAN }

Threw(m)    == [threw |-> TRUE,  message |-> m,  text |-> EmptyText]
Returned(t) == [threw |-> FALSE, message |-> "", text |-> t]

\* a helper that never reads the error envelope
callGeminiGenericOnly(res) ==
    IF res.kind = "unreachable" THEN Threw("Failed to fetch")
    ELSE IF res.status \notin 200 .. 299
         THEN Threw("Gemini API error " \o ToString(res.status))
    ELSE IF res.candidates THEN Returned(res.text) ELSE Returned(EmptyText)

callGemini(res) ==
    IF res.kind = "unreachable" THEN Threw("Failed to fetch")
    ELSE IF res.status \notin 200 .. 299
         THEN Threw(IF res.envelope # "" THEN res.envelope
                    ELSE "Gemini API error " \o ToString(res.status))
    ELSE IF res.candidates THEN Returned(res.text) ELSE Returned(EmptyText)

\* every completion text of the model, with the result of parseGeminiJSON
\* on it and that result as the generation loop reads it
KnownTexts ==
    UNION { RecoverTexts(b) : b \in Bodies } \cup {ProseText, EmptyText, ThreadText(5)}

RecoverTable ==
    [t \in KnownTexts |->
        Let(parseGeminiJSON(t), LAMBDA p : [result |-> p, doc |-> AsDoc(p.value)])]

Recovered(t) == RecoverTable[t]

\* the three attempts of parseGeminiJSON on every completion text: the text
\* the first attempt parses, and what each attempt comes to on its own
AttemptsTable ==
    [t \in KnownTexts |->
        Let(BraceMatch(CleanFences(t)), LAMBDA cleaned :
            [cleaned |-> cleaned, direct |-> JSONparse(t), first |-> Tier1(cleaned),
             second |-> Tier2(cleaned), third |-> Tier3(Tier2Text(cleaned))])]

\* the checks of the generation loop on the parsed value
HasRequiredFields(p) ==
    /\ Truthy(p.title) /\ Truthy(p.problem) /\ Truthy(p.hints)
    /\ Truthy(p.keyMetrics) /\ Truthy(p.tools) /\ Truthy(p.teachingPoint)

\* one pass through the try block of the loop, after the service has answered
AttemptResult(res) ==
    LET r == callGemini(res) IN
    IF r.threw THEN [ok |-> FALSE, message |-> r.message, parsed |-> NullDoc]
    ELSE LET rec == Recovered(r.text)
             p   == rec.result
         IN
         IF p.threw THEN [ok |-> FALSE, message |-> p.message, parsed |-> NullDoc]
         ELSE IF p.value.type = "null"
              THEN [ok |-> FALSE, parsed |-> NullDoc,
                    message |-> "Cannot read properties of null (reading 'title')"]
         ELSE IF ~HasRequiredFields(rec.doc)
              THEN [ok |-> FALSE, parsed |-> NullDoc,
                    message |-> "Invalid challenge format - missing required fields"]
         ELSE [ok |-> TRUE, message |-> "", parsed |-> rec.doc]

\* a record that always carries the label of the first category
FullChallengeFirstLabel(parsed, call) ==
    [title |-> parsed.title, problem |-> parsed.problem, hints |-> parsed.hints,
     keyMetrics |-> parsed.keyMetrics, tools |-> parsed.tools,
     teachingPoint |-> parsed.teachingPoint, body |-> parsed.body,
     category |-> CATEGORIES[1].label, cat |-> call.cat, diff |-> call.diff,
     day |-> call.day, dateKey |-> call.dateKey]

\* { ...parsed, category: cat.label, cat, diff, day, dateKey }
FullChallenge(parsed, call) ==
    [title |-> parsed.title, problem |-> parsed.problem, hints |-> parsed.hints,
     keyMetrics |-> parsed.keyMetrics, tools |-> parsed.tools,
     teachingPoint |-> parsed.teachingPoint, body |-> parsed.body,
     category |-> call.cat.label, cat |-> call.cat, diff |-> call.diff,
     day |-> call.day, dateKey |-> call.dateKey]

\* { ...cached, cat, diff, day }
MergeCached(cached, meta) ==
    [cached EXCEPT !.cat = meta.cat, !.diff = meta.diff, !.day = meta.day]

GenErrorMessage(m) ==
    "Failed after 3 attempts: " \o m \o ". Try clicking RETRY or check your API key."

\* ------------------------------------------------------------ the ledger
\* variants of bumpStreak with one branch of the rule wrong
bumpStreakNoIncrement(clk, count, last) ==
    IF last = IsoDate(clk - 1) THEN count
    ELSE IF last = todayKey(clk) THEN count
    ELSE 1

bumpStreakSameDayIncrement(clk, count, last) ==
    IF last = IsoDate(clk - 1) THEN count + 1
    ELSE IF last = todayKey(clk) THEN count + 1
    ELSE 1

bumpStreakNoReset(clk, count, last) ==
    IF last = IsoDate(clk - 1) THEN count + 1
    ELSE IF last = todayKey(clk) THEN count
    ELSE count + 1

loadStreak(count, last) == [count |-> count, last |-> last]

\* the new value of od_streak
bumpStreak(clk, count, last) ==
    LET today     == todayKey(clk)
        yesterday == IsoDate(clk - 1)
        s         == loadStreak(count, last)
    IN  IF s.last = yesterday THEN s.count + 1
        ELSE IF s.last = today THEN s.count
        ELSE 1

\* bumpStreak with each of its clock reads on a day of its own: todayKey()
\* of line 254 reads clkToday, Date.now() of line 256 reads clkNow
bumpStreakAt(clkToday, clkNow, count, last) ==
    LET today     == todayKey(clkToday)
        yesterday == IsoDate(clkNow - 1)
        s         == loadStreak(count, last)
    IN  IF s.last = yesterday THEN s.count + 1
        ELSE IF s.last = today THEN s.count
        ELSE 1

RECURSIVE FilterOutDate(_, _)
FilterOutDate(hist, date) ==
    IF hist = <<>> THEN <<>>
    ELSE IF Head(hist).date = date THEN FilterOutDate(Tail(hist), date)
    ELSE <<Head(hist)>> \o FilterOutDate(Tail(hist), date)

\* arr.slice(0, n)
Slice0(seq, n) == IF Len(seq) <= n THEN seq ELSE SubSeq(seq, 1, n)

\* a history that is never cut
pushHistoryNoCap(hist, entry) == <<entry>> \o FilterOutDate(hist, entry.date)

\* a history that keeps the old entry of the date
pushHistoryNoDedup(hist, entry) == Slice0(<<entry>> \o hist, HistoryCap)

pushHistory(hist, entry) ==
    Slice0(<<entry>> \o FilterOutDate(hist, entry.date), HistoryCap)

\* the text of an analysis the user has typed: which text, and how long
ShortAnalysis == [id |-> "short", len |-> 80]
LongAnalysis  == [id |-> "long",  len |-> 200]

\* text.slice(0, n)
SliceText(text, n) == [text EXCEPT !.len = IF @ <= n THEN @ ELSE n]

HistoryEntry(clk, ch, analysis) ==
    [date |-> todayKey(clk), day |-> ch.day, title |-> ch.title,
     category |-> ch.category, difficulty |-> ch.diff,
     analysis |-> SliceText(analysis, AnalysisCap)]

\* ------------------------------------------------------------ state
VARIABLES
    clock,          \* whole days elapsed since the epoch (Date.now())
    apiKey,         \* the apiKey state: TRUE when a key is set
    offsetDays,     \* the offsetDays state
    challenge,      \* the challenge state: <<>> for null, else <<record>>
    generating,     \* the generating state
    genError,       \* the genError state
    cache,          \* localStorage od_challenge_<dateKey>: dateKey -> record
    calls,          \* loadOrGenerateChallenge calls suspended at an await
    nextId,         \* number of calls that missed the cache so far
    threadCall,     \* generateThread suspended at its await: <<>> or <<captured challenge and analysis, requests issued>>
    loadingFeedback, \* getFeedback is suspended at its await
    keyTest,        \* handleSaveKey suspended at its await: <<>> or <<the response on its way>>
    apiKeyError,    \* the apiKeyError state
    od_streak,      \* localStorage od_streak
    od_streak_date, \* localStorage od_streak_date ("" when absent)
    od_history,     \* localStorage od_history
    again           \* history: the last completion recorded today found today's date already stored

vars == <<clock, apiKey, offsetDays, challenge, generating, genError,
          cache, calls, nextId, threadCall, loadingFeedback, keyTest, apiKeyError,
          od_streak, od_streak_date, od_history, again>>

\* the state of the key form
keyVars == <<keyTest, apiKeyError>>

\* the ledger in localStorage, with its history variable
ledgerVars == <<od_streak, od_streak_date, od_history, again>>

Init ==
    /\ clock = StartDay
    /\ apiKey = FALSE
    /\ offsetDays = 0
    /\ challenge = <<>>
    /\ generating = FALSE
    /\ genError = ""
    /\ cache = <<>>
    /\ calls = {}
    /\ nextId = 0
    /\ threadCall = <<>>
    /\ loadingFeedback = FALSE
    /\ od_streak = 0
    /\ od_streak_date = ""
    /\ od_history = <<>>
    /\ again = FALSE
    /\ keyTest = <<>>
    /\ apiKeyError = ""

\* ------------------------------------------------------------ storage
\* a look-up that never finds the entry
loadChallengeMiss(store, dateKey) == <<>>

\* a save that is lost
saveChallengeLost(store, dateKey, data) == store

loadChallenge(store, dateKey) == IF dateKey \in DOMAIN store THEN <<store[dateKey]>> ELSE <<>>

saveChallenge(store, dateKey, data) ==
    [k \in (DOMAIN store) \cup {dateKey} |-> IF k = dateKey THEN data ELSE store[k]]

\* ------------------------------------------------------------ obtain
\* the component state a call starts from
Component == [calls |-> calls, challenge |-> challenge,
              generating |-> generating, genError |-> genError]

\* the component state right after construction
Fresh == [calls |-> {}, challenge |-> <<>>, generating |-> FALSE, genError |-> ""]

\* a call that waits before its first attempt as well
loadOrGenerateChallengeAtWaitsFirst(clkMeta, clkKey, offset, st) ==
    LET meta    == getTodayMeta(clkMeta, offset)
        dateKey == DateKey(clkKey, offset)
        cached  == loadChallenge(cache, dateKey)
        call    == [id |-> nextId + 1, offset |-> offset, dateKey |-> dateKey,
                    cat |-> meta.cat, diff |-> meta.diff, day |-> meta.day,
                    attempt |-> 1, pc |-> "wait", requests |-> 0, timer |-> BackoffMs]
    IN  IF cached # <<>>
        THEN /\ challenge' = <<MergeCached(cached[1], meta)>>
             /\ generating' = st.generating
             /\ genError' = st.genError
             /\ calls' = st.calls
             /\ UNCHANGED <<cache, nextId>>
        ELSE /\ nextId < MaxObtains
             /\ generating' = TRUE
             /\ genError' = ""
             /\ challenge' = <<>>
             /\ calls' = st.calls \cup {call}
             /\ nextId' = nextId + 1
             /\ cache' = cache

\* The synchronous part of loadOrGenerateChallenge(offset, key), up to its
\* first await, started in component state st: the cache
\* look-up and, on a miss, the start of attempt 1, which issues the first
\* service request without a wait.  The function reads the clock twice:
\* getTodayMeta reads it at clkMeta, the dateKey expression at clkKey.
loadOrGenerateChallengeAt(clkMeta, clkKey, offset, st) ==
    LET meta    == getTodayMeta(clkMeta, offset)
        dateKey == DateKey(clkKey, offset)
        cached  == loadChallenge(cache, dateKey)
        call    == [id |-> nextId + 1, offset |-> offset, dateKey |-> dateKey,
                    cat |-> meta.cat, diff |-> meta.diff, day |-> meta.day,
                    attempt |-> 1, pc |-> "service", requests |-> 1, timer |-> 0]
    IN  IF cached # <<>>
        THEN /\ challenge' = <<MergeCached(cached[1], meta)>>
             /\ generating' = st.generating
             /\ genError' = st.genError
             /\ calls' = st.calls
             /\ UNCHANGED <<cache, nextId>>
        ELSE /\ nextId < MaxObtains
             /\ generating' = TRUE
             /\ genError' = ""
             /\ challenge' = <<>>
             /\ calls' = st.calls \cup {call}
             /\ nextId' = nextId + 1
             /\ cache' = cache

\* the call with both clock reads on the same day
loadOrGenerateChallenge(offset, st) == loadOrGenerateChallengeAt(clock, clock, offset, st)

\* the effect on [apiKey, offsetDays]: runs the call only when a key is set
KeyOffsetEffect(key, offset, st) ==
    IF key THEN loadOrGenerateChallenge(offset, st)
    ELSE /\ challenge' = st.challenge
         /\ generating' = st.generating
         /\ genError' = st.genError
         /\ calls' = st.calls
         /\ UNCHANGED <<cache, nextId>>

\* a page load: the component state is constructed anew, calls of the old
\* page are gone, the store is kept, and the effect runs for offset 0
Reload ==
    /\ apiKey' = apiKey
    /\ offsetDays' = 0
    /\ threadCall' = <<>>
    /\ loadingFeedback' = FALSE
    /\ KeyOffsetEffect(apiKey, 0, Fresh)
    /\ UNCHANGED <<keyVars, clock, ledgerVars>>

\* a page load at midnight: the mount effect runs the call for offset 0, and
\* the day changes between the clock read of getTodayMeta and the clock read
\* of todayKey
ReloadAtMidnight ==
    /\ apiKey
    /\ clock < StartDay + MaxClockSpan
    /\ clock' = clock + 1
    /\ again' = FALSE
    /\ apiKey' = apiKey
    /\ offsetDays' = 0
    /\ threadCall' = <<>>
    /\ loadingFeedback' = FALSE
    /\ loadOrGenerateChallengeAt(clock, clock + 1, 0, Fresh)
    /\ UNCHANGED <<keyVars, od_streak, od_streak_date, od_history>>

\* handleSaveKey with a key that passes the test call: setApiKey(k), and the
\* effect runs for the current offset
SaveKey ==
    /\ ~apiKey
    /\ keyTest = <<>>
    /\ apiKeyError' = ""
    /\ keyTest' = <<>>
    /\ apiKey' = TRUE
    /\ KeyOffsetEffect(TRUE, offsetDays, Component)
    /\ UNCHANGED <<clock, ledgerVars, offsetDays, threadCall, loadingFeedback>>

\* handleSaveKey up to its await: a key without the "AI" prefix is refused on
\* the spot, any other key is tested with a request that the service will
\* answer with res (the CONNECT button is disabled while a test is running)
handleSaveKey(goodPrefix, res) ==
    /\ ~apiKey
    /\ keyTest = <<>>
    /\ IF goodPrefix
       THEN /\ apiKeyError' = ""
            /\ keyTest' = <<res>>
       ELSE /\ apiKeyError' = "Key should start with 'AI...' - check your Gemini API key."
            /\ keyTest' = <<>>
    /\ UNCHANGED <<clock, ledgerVars, apiKey, offsetDays, threadCall, loadingFeedback,
                   challenge, generating, genError, cache, calls, nextId>>

\* the test request returns: on an error the form shows it, else the key is
\* set and the effect runs for the current offset
KeyTestAnswers ==
    /\ keyTest # <<>>
    /\ keyTest' = <<>>
    /\ LET r == callGemini(keyTest[1]) IN
       IF r.threw
       THEN /\ apiKeyError' = "Key test failed: " \o
                                 (IF r.message # "" THEN r.message ELSE "Invalid key")
            /\ UNCHANGED <<apiKey, challenge, generating, genError, cache, calls, nextId>>
       ELSE /\ apiKey' = TRUE
            /\ apiKeyError' = apiKeyError
            /\ KeyOffsetEffect(TRUE, offsetDays, Component)
    /\ UNCHANGED <<clock, ledgerVars, offsetDays, threadCall, loadingFeedback>>

\* the KEY and CHANGE KEY buttons: setApiKey(""); the effect runs and does nothing
ClearKey ==
    /\ apiKey
    /\ apiKey' = FALSE
    /\ KeyOffsetEffect(FALSE, offsetDays, Component)
    /\ UNCHANGED <<keyVars, clock, ledgerVars, offsetDays, threadCall, loadingFeedback>>

\* changeDay(dir), and the effect that its setOffsetDays triggers
changeDay(dir) ==
    /\ apiKey
    /\ offsetDays + dir \in Offsets
    /\ offsetDays' = offsetDays + dir
    /\ KeyOffsetEffect(apiKey, offsetDays + dir, Component)
    /\ UNCHANGED <<keyVars, clock, ledgerVars, apiKey, threadCall, loadingFeedback>>

\* what the render shows
ErrorVisible == apiKey /\ genError # "" /\ ~generating

MainVisible == apiKey /\ challenge # <<>> /\ ~generating /\ genError = ""

\* the RETRY button of the error panel
Retry ==
    /\ ErrorVisible
    /\ loadOrGenerateChallenge(offsetDays, Component)
    /\ UNCHANGED <<keyVars, clock, ledgerVars, apiKey, offsetDays, threadCall, loadingFeedback>>

\* the REGENERATE button of the challenge phase
Regenerate ==
    /\ MainVisible
    /\ loadOrGenerateChallenge(offsetDays, Component)
    /\ UNCHANGED <<keyVars, clock, ledgerVars, apiKey, offsetDays, threadCall, loadingFeedback>>

\* the timer of attempts 2 and 3 (BackoffMs) fires; the call issues its next request
BackoffElapsed(c) ==
    /\ c \in calls
    /\ c.pc = "wait"
    /\ calls' = (calls \ {c}) \cup {[c EXCEPT !.pc = "service", !.requests = @ + 1, !.timer = 0]}
    /\ UNCHANGED <<keyVars, clock, ledgerVars, apiKey, offsetDays, threadCall, loadingFeedback,
                   challenge, generating, genError, cache, nextId>>

\* a loop that issues the next request at once after a failure
ServiceAnswersNoWait(c, res) ==
    /\ c \in calls
    /\ c.pc = "service"
    /\ LET a == AttemptResult(res) IN
       IF a.ok
       THEN LET full == FullChallenge(a.parsed, c) IN
            /\ cache' = saveChallenge(cache, c.dateKey, full)
            /\ challenge' = <<full>>
            /\ calls' = calls \ {c}
            /\ UNCHANGED <<generating, genError>>
       ELSE IF c.attempt < MaxAttempts
       THEN /\ calls' = (calls \ {c}) \cup {[c EXCEPT !.attempt = @ + 1, !.requests = @ + 1]}
            /\ UNCHANGED <<cache, challenge, generating, genError>>
       ELSE /\ genError' = GenErrorMessage(a.message)
            /\ generating' = FALSE
            /\ calls' = calls \ {c}
            /\ UNCHANGED <<cache, challenge>>
    /\ UNCHANGED <<keyVars, clock, ledgerVars, apiKey, offsetDays, threadCall, loadingFeedback, nextId>>

\* a loop that reports the error of every failed attempt
ServiceAnswersSurfacesEach(c, res) ==
    /\ c \in calls
    /\ c.pc = "service"
    /\ LET a == AttemptResult(res) IN
       IF a.ok
       THEN LET full == FullChallenge(a.parsed, c) IN
            /\ cache' = saveChallenge(cache, c.dateKey, full)
            /\ challenge' = <<full>>
            /\ calls' = calls \ {c}
            /\ UNCHANGED <<generating, genError>>
       ELSE IF c.attempt < MaxAttempts
       THEN /\ calls' = (calls \ {c}) \cup {[c EXCEPT !.attempt = @ + 1, !.pc = "wait", !.timer = BackoffMs]}
            /\ genError' = GenErrorMessage(a.message)
            /\ UNCHANGED <<cache, challenge, generating>>
       ELSE /\ genError' = GenErrorMessage(a.message)
            /\ generating' = FALSE
            /\ calls' = calls \ {c}
            /\ UNCHANGED <<cache, challenge>>
    /\ UNCHANGED <<keyVars, clock, ledgerVars, apiKey, offsetDays, threadCall, loadingFeedback, nextId>>

\* the service answers the request of call c with res; the rest of the loop
\* body runs up to the next await or to the end of the call
ServiceAnswers(c, res) ==
    /\ c \in calls
    /\ c.pc = "service"
    /\ LET a == AttemptResult(res) IN
       IF a.ok
       THEN LET full == FullChallenge(a.parsed, c) IN
            /\ cache' = saveChallenge(cache, c.dateKey, full)
            /\ challenge' = <<full>>
            /\ calls' = calls \ {c}
            /\ UNCHANGED <<generating, genError>>
       ELSE IF c.attempt < MaxAttempts
       THEN /\ calls' = (calls \ {c}) \cup {[c EXCEPT !.attempt = @ + 1, !.pc = "wait", !.timer = BackoffMs]}
            /\ UNCHANGED <<cache, challenge, generating, genError>>
       ELSE /\ genError' = GenErrorMessage(a.message)
            /\ generating' = FALSE
            /\ calls' = calls \ {c}
            /\ UNCHANGED <<cache, challenge>>
    /\ UNCHANGED <<keyVars, clock, ledgerVars, apiKey, offsetDays, threadCall, loadingFeedback, nextId>>

\* ------------------------------------------------------------ thread
\* generateThread up to its await, for a submission whose analysis and
\* conclusion are both non-blank: the button (GENERATE_TWEET_THREAD, or REGEN
\* of the tweet phase) is shown and enabled, the guard passes, and the
\* request is issued with the challenge the callback has closed over
generateThread(analysis) ==
    /\ MainVisible
    /\ threadCall = <<>>
    /\ challenge # <<>>
    /\ threadCall' = <<[challenge |-> challenge[1], analysis |-> analysis, requests |-> 1]>>
    /\ UNCHANGED <<keyVars, clock, ledgerVars, apiKey, offsetDays, loadingFeedback,
                   challenge, generating, genError, cache, calls, nextId>>

\* a generateThread that asks once more after a failure
ThreadAnswersRetry(res) ==
    /\ threadCall # <<>>
    /\ LET r == callGemini(res) IN
       IF r.threw /\ threadCall[1].requests = 1
       THEN /\ threadCall' = <<[threadCall[1] EXCEPT !.requests = 2]>>
            /\ UNCHANGED ledgerVars
       ELSE IF r.threw
       THEN /\ threadCall' = <<>>
            /\ UNCHANGED ledgerVars
       ELSE /\ threadCall' = <<>>
            /\ od_streak' = bumpStreak(clock, od_streak, od_streak_date)
            /\ od_streak_date' = todayKey(clock)
            /\ od_history' = pushHistory(od_history,
                              HistoryEntry(clock, threadCall[1].challenge, threadCall[1].analysis))
            /\ again' = (od_streak_date = todayKey(clock))
    /\ UNCHANGED <<keyVars, clock, apiKey, offsetDays, loadingFeedback,
                   challenge, generating, genError, cache, calls, nextId>>

\* the service answers the thread request with res
ThreadAnswers(res) ==
    /\ threadCall # <<>>
    /\ threadCall' = <<>>
    /\ LET r == callGemini(res) IN
       IF r.threw
       THEN /\ UNCHANGED ledgerVars
       ELSE /\ od_streak' = bumpStreak(clock, od_streak, od_streak_date)
            /\ od_streak_date' = todayKey(clock)
            /\ od_history' = pushHistory(od_history,
                              HistoryEntry(clock, threadCall[1].challenge, threadCall[1].analysis))
            /\ again' = (od_streak_date = todayKey(clock))
    /\ UNCHANGED <<keyVars, clock, apiKey, offsetDays, loadingFeedback,
                   challenge, generating, genError, cache, calls, nextId>>

\* the thread request returns without an error while midnight (UTC) passes.
\* The rest of the handler reads the clock three times: todayKey() in
\* bumpStreak (line 254), Date.now() in bumpStreak (line 256) and todayKey()
\* for the history entry (line 469); the day changes just before the read
\* numbered tick, 2 or 3
ThreadAnswersAtMidnight(res, tick) ==
    /\ threadCall # <<>>
    /\ ~callGemini(res).threw
    /\ clock < StartDay + MaxLedgerSpan
    /\ clock' = clock + 1
    /\ threadCall' = <<>>
    /\ od_streak' = bumpStreakAt(clock, IF tick = 2 THEN clock + 1 ELSE clock,
                                 od_streak, od_streak_date)
    /\ od_streak_date' = todayKey(clock)
    /\ od_history' = pushHistory(od_history,
                        HistoryEntry(clock + 1, threadCall[1].challenge, threadCall[1].analysis))
    /\ again' = FALSE
    /\ UNCHANGED <<keyVars, apiKey, offsetDays, loadingFeedback,
                   challenge, generating, genError, cache, calls, nextId>>

\* ------------------------------------------------------------ feedback
\* a getFeedback that counts as a completion
FeedbackAnswersBumps(res) ==
    /\ loadingFeedback
    /\ loadingFeedback' = FALSE
    /\ od_streak' = bumpStreak(clock, od_streak, od_streak_date)
    /\ od_streak_date' = todayKey(clock)
    /\ UNCHANGED <<keyVars, clock, od_history, again, apiKey, offsetDays, threadCall,
                   challenge, generating, genError, cache, calls, nextId>>

\* getFeedback up to its await, for a non-blank analysis and conclusion:
\* the GET_AI_FEEDBACK button is shown and enabled and the request is issued
getFeedback ==
    /\ MainVisible
    /\ ~loadingFeedback
    /\ challenge # <<>>
    /\ loadingFeedback' = TRUE
    /\ UNCHANGED <<keyVars, clock, ledgerVars, apiKey, offsetDays, threadCall,
                   challenge, generating, genError, cache, calls, nextId>>

\* the service answers the feedback request with res: the text is shown, or
\* the failure is shown in a toast; either way the invocation is over
FeedbackAnswers(res) ==
    /\ loadingFeedback
    /\ loadingFeedback' = FALSE
    /\ UNCHANGED <<keyVars, clock, ledgerVars, apiKey, offsetDays, threadCall,
                   challenge, generating, genError, cache, calls, nextId>>

\* ------------------------------------------------------------ the clock
\* midnight (UTC) passes; the wall clock only moves forward, here for at
\* most span days
Midnight(span) ==
    /\ clock < StartDay + span
    /\ clock' = clock + 1
    /\ again' = FALSE
    /\ UNCHANGED <<keyVars, od_streak, od_streak_date, od_history, apiKey, offsetDays, threadCall, loadingFeedback,
                   challenge, generating, genError, cache, calls, nextId>>

\* ------------------------------------------------------------ specification
Next ==
    \/ Reload
    \/ SaveKey
    \/ ClearKey
    \/ \E dir \in {-1, 1} : changeDay(dir)
    \/ Retry
    \/ Regenerate
    \/ \E c \in calls : BackoffElapsed(c)
    \/ \E c \in calls : \E res \in ChallengeResponses(c.id) : ServiceAnswers(c, res)
    \/ generateThread(LongAnalysis)
    \/ \E res \in ThreadResponses : ThreadAnswers(res)
    \/ getFeedback
    \/ \E res \in FeedbackResponses : FeedbackAnswers(res)
    \/ Midnight(MaxClockSpan)

Spec == Init /\ [][Next]_vars

\* ------------------------------------------------------------ obtain alone
\* The handlers that start, move or end a loadOrGenerateChallenge call, and
\* the clock.  getFeedback and generateThread write none of the variables
\* these handlers read (apiKey, offsetDays, challenge, generating, genError,
\* cache, calls, nextId, clock), so the reachable values of these variables
\* are the same here as under Spec.
ObtainNext ==
    \/ Reload
    \/ SaveKey
    \/ ClearKey
    \/ \E dir \in {-1, 1} : changeDay(dir)
    \/ Retry
    \/ Regenerate
    \/ \E c \in calls : BackoffElapsed(c)
    \/ \E c \in calls : \E res \in ChallengeResponses(c.id) : ServiceAnswers(c, res)
    \/ Midnight(MaxClockSpan)

ObtainSpec == Init /\ [][ObtainNext]_vars

\* the obtain handlers, the clock, and a page load that straddles midnight
MidnightNext ==
    \/ ObtainNext
    \/ ReloadAtMidnight

MidnightSpec == Init /\ [][MidnightNext]_vars

\* ------------------------------------------------------------ recovery
\* The generation loop fed with every kind of completion text: documents that
\* are well formed, wrapped in a fence and prose, broken by raw line breaks,
\* stripped of their braces, or faulty in other ways.
ParseResponses(b) == { Completion(t) : t \in RecoverTexts(b) }

ParseTable == [b \in Bodies |-> ParseResponses(b)]

ParseNext ==
    \/ Reload
    \/ SaveKey
    \/ \E dir \in {-1, 1} : changeDay(dir)
    \/ Retry
    \/ \E c \in calls : BackoffElapsed(c)
    \/ \E c \in calls : \E res \in ParseTable[c.id] : ServiceAnswers(c, res)

ParseSpec == Init /\ [][ParseNext]_vars

\* ------------------------------------------------------------ the ledger alone
\* The page of a returning user: the store holds the key and the challenge
\* generated for today by the one call made so far, and the mount effect has
\* found it in the cache.
LedgerInit ==
    LET meta   == getTodayMeta(StartDay, 0)
        call   == [dateKey |-> DateKey(StartDay, 0),
                   cat |-> meta.cat, diff |-> meta.diff, day |-> meta.day]
        stored == FullChallenge(GoodDoc(1), call)
    IN  /\ clock = StartDay
        /\ apiKey = TRUE
        /\ offsetDays = 0
        /\ cache = saveChallenge(<<>>, call.dateKey, stored)
        /\ challenge = <<MergeCached(stored, meta)>>
        /\ generating = FALSE
        /\ genError = ""
        /\ calls = {}
        /\ nextId = 1
        /\ threadCall = <<>>
        /\ loadingFeedback = FALSE
        /\ od_streak = 0
        /\ od_streak_date = ""
        /\ od_history = <<>>
        /\ again = FALSE
        /\ keyTest = <<>>
        /\ apiKeyError = ""

\* the user stays on that page and only asks for threads and feedback, day after day
LedgerNext ==
    \/ \E analysis \in {ShortAnalysis, LongAnalysis} : generateThread(analysis)
    \/ \E res \in ThreadResponses : ThreadAnswers(res)
    \/ getFeedback
    \/ \E res \in FeedbackResponses : FeedbackAnswers(res)
    \/ Midnight(MaxLedgerSpan)

LedgerSpec == LedgerInit /\ [][LedgerNext]_vars

\* the same page, with thread answers that may arrive as the day changes
LedgerMidnightNext ==
    \/ LedgerNext
    \/ \E res \in ThreadResponses : \E tick \in {2, 3} : ThreadAnswersAtMidnight(res, tick)

LedgerMidnightSpec == LedgerInit /\ [][LedgerMidnightNext]_vars

\* ------------------------------------------------------------ the assignment
\* The inputs of getTodayMeta: a page that is to show day offset o on clock
\* day d, with the challenges of today and of that day generated earlier on
\* day d (no record can exist for a day number below 0).  The user reloads,
\* regenerates and navigates; every one of these steps, like every render,
\* computes getTodayMeta for the day it shows.
AssignOffsets == (0 - MaxAssignOffset) .. MaxAssignOffset

AssignStored(d, o) ==
    LET meta == getTodayMeta(d, o)
    IN  FullChallenge(GoodDoc(1), [dateKey |-> DateKey(d, o), cat |-> meta.cat,
                                   diff |-> meta.diff, day |-> meta.day])

AssignCache(d, shown) ==
    LET known == {o \in {0, shown} : getDayNumber(d) + o >= 0}
    IN  [k \in {DateKey(d, o) : o \in known} |->
            AssignStored(d, CHOOSE o \in known : DateKey(d, o) = k)]

AssignInit ==
    /\ clock \in 0 .. MaxAssignDay
    /\ offsetDays \in AssignOffsets
    /\ apiKey = TRUE
    /\ cache = AssignCache(clock, offsetDays)
    /\ challenge = IF DateKey(clock, offsetDays) \in DOMAIN cache
                   THEN <<MergeCached(cache[DateKey(clock, offsetDays)],
                                      getTodayMeta(clock, offsetDays))>>
                   ELSE <<>>
    /\ generating = FALSE
    /\ genError = ""
    /\ calls = {}
    /\ nextId = 1
    /\ threadCall = <<>>
    /\ loadingFeedback = FALSE
    /\ od_streak = 0
    /\ od_streak_date = ""
    /\ od_history = <<>>
    /\ again = FALSE
    /\ keyTest = <<>>
    /\ apiKeyError = ""

AssignNext ==
    \/ Reload
    \/ \E dir \in {-1, 1} : changeDay(dir)
    \/ Regenerate

AssignSpec == AssignInit /\ [][AssignNext]_vars

\* ------------------------------------------------------------ the service call
\* The inputs of callGemini: a new user has submitted a key and the test
\* request is on its way; the service answers it in any of the ways of
\* CallResponses.  After an error the user submits again; after a success
\* the KEY button brings the form back.
CallInit ==
    /\ clock = StartDay
    /\ apiKey = FALSE
    /\ offsetDays = 0
    /\ challenge = <<>>
    /\ generating = FALSE
    /\ genError = ""
    /\ cache = <<>>
    /\ calls = {}
    /\ nextId = 0
    /\ threadCall = <<>>
    /\ loadingFeedback = FALSE
    /\ keyTest \in {<<res>> : res \in CallResponses}
    /\ apiKeyError = ""
    /\ od_streak = 0
    /\ od_streak_date = ""
    /\ od_history = <<>>
    /\ again = FALSE

CallNext ==
    \/ \E goodPrefix \in BOOLEAN : \E res \in CallResponses : handleSaveKey(goodPrefix, res)
    \/ KeyTestAnswers
    \/ ClearKey

CallSpec == CallInit /\ [][CallNext]_vars

\* ------------------------------------------------------------ a long history
\* the same page, with a user who completes a thread every day before the
\* day ends
HistoryNext ==
    \/ generateThread(LongAnalysis)
    \/ \E res \in ThreadResponses : ThreadAnswers(res)
    \/ (od_streak_date = todayKey(clock) /\ Midnight(MaxHistorySpan))

HistorySpec == LedgerInit /\ [][HistoryNext]_vars

\* ------------------------------------------------------------ properties
\* a step of a handler that runs loadOrGenerateChallenge
ObtainStep ==
    Reload \/ SaveKey \/ (\E dir \in {-1, 1} : changeDay(dir)) \/ Retry \/ Regenerate

\* the generated content of a challenge record
ContentOf(r) == <<r.title, r.problem, r.hints, r.keyMetrics, r.tools, r.teachingPoint, r.body>>

\* every entry of store a is in store b with the same value
KeepsEntries(a, b) == \A k \in DOMAIN a : k \in DOMAIN b /\ b[k] = a[k]

\* C1: when the cache already holds an entry for the key of the requested
\* offset, the call exposes that record, issues no service request and
\* writes nothing to the cache.
C1_CacheHitShortCircuits ==
    [][ (apiKey' /\ DateKey(clock, offsetDays') \in DOMAIN cache /\ ObtainStep)
        => /\ cache' = cache
           /\ calls' \subseteq calls
           /\ nextId' = nextId
           /\ challenge' # <<>>
           /\ ContentOf(challenge'[1]) = ContentOf(cache[DateKey(clock, offsetDays')])
      ]_vars

\* the challenge phase is on screen, which a page shows only after a cache hit
C1_Witness ==
    /\ MainVisible
    /\ calls = {}
    /\ DateKey(clock, offsetDays) \in DOMAIN cache
    /\ ContentOf(challenge[1]) = ContentOf(cache[DateKey(clock, offsetDays)])

\* C2: on a cache miss, when attempt k is the first to pass validation, the
\* call writes the cache exactly once, under its own key, issues no further
\* request, and exposes the validated record as the challenge; no other step
\* of the call writes the cache.
C2_SuccessWritesOnce ==
    [][ /\ nextId' # nextId =>
              /\ ObtainStep
              /\ cache' = cache
              /\ \E c \in calls' \ calls :
                    /\ c.dateKey = DateKey(clock, offsetDays')
                    /\ c.dateKey \notin DOMAIN cache
        /\ \A c \in calls \ calls' : \A res \in ChallengeResponses(c.id) :
              (c.pc = "service" /\ AttemptResult(res).ok /\ ServiceAnswers(c, res)) =>
                 /\ c.requests = c.attempt
                 /\ \A d \in calls' : d.id # c.id
                 /\ DOMAIN cache' = (DOMAIN cache) \cup {c.dateKey}
                 /\ \A k \in (DOMAIN cache) \ {c.dateKey} : cache'[k] = cache[k]
                 /\ HasRequiredFields(cache'[c.dateKey])
                 /\ cache'[c.dateKey].body = c.id
                 /\ challenge' = <<cache'[c.dateKey]>>
        /\ cache' # cache =>
              \E c \in calls : \E res \in ChallengeResponses(c.id) :
                 ServiceAnswers(c, res) /\ AttemptResult(res).ok
      ]_vars

\* the only call so far has ended with its record exposed and stored
C2_Witness ==
    /\ nextId = 1
    /\ calls = {}
    /\ generating
    /\ Cardinality(DOMAIN cache) = 1
    /\ \E k \in DOMAIN cache : challenge = <<cache[k]>> /\ challenge[1].body = 1

\* C3: on a cache miss, when all 3 attempts fail, the call sets a generation
\* error that carries the message of the third attempt, writes nothing to
\* the cache and leaves the challenge absent.
C3_FailureLeavesNoChallenge ==
    [][ \A c \in calls : \A res \in ChallengeResponses(c.id) :
          (c.attempt = 3 /\ ~AttemptResult(res).ok /\ ServiceAnswers(c, res))
          => /\ genError' = GenErrorMessage(AttemptResult(res).message)
             /\ cache' = cache
             /\ challenge' = <<>>
      ]_vars

\* the order of the await points of one call
Rank(c) == 2 * c.attempt + (IF c.pc = "service" THEN 1 ELSE 0)

\* C4: one call that missed the cache issues at most 3 service requests,
\* one after another (request k+1 is issued only after attempt k has failed
\* and the wait has passed), and every answer moves the call forward, so that
\* it ends at the latest with the answer to its third request (stated of
\* every call that a step starts, moves or ends).
C4_AtMostThreeSequentialAttempts ==
    [][ calls' # calls =>
        /\ \A c \in calls' \ calls :
              /\ c.attempt \in 1 .. 3
              /\ c.pc = "service" => c.requests = c.attempt
              /\ c.pc = "wait" => (c.attempt >= 2 /\ c.requests = c.attempt - 1)
        /\ \A c \in calls : \A d \in calls' :
              (d.id = c.id /\ d # c) =>
                 /\ Rank(d) = Rank(c) + 1
                 /\ d.requests = c.requests + (IF c.pc = "wait" THEN 1 ELSE 0)
        /\ \A c \in calls \ calls' : \A res \in ChallengeResponses(c.id) :
              (c.attempt = 3 /\ ServiceAnswers(c, res))
                 => \A d \in calls' : d.id # c.id
      ]_vars

C4_Witness ==
    \E c \in calls : c.attempt = 3 /\ c.pc = "service" /\ c.requests = 3

\* C5: cache entries are immutable once written: no step changes or removes
\* the value stored under a key that holds a Challenge.
C5_CacheEntriesImmutable == [][KeepsEntries(cache, cache')]_vars

\* the shape the specification requires of a Challenge
WellFormed(r) ==
    /\ IsString(r.title) /\ IsString(r.problem) /\ IsString(r.teachingPoint)
    /\ IsStringArray(r.hints) /\ IsStringArray(r.keyMetrics) /\ IsStringArray(r.tools)
    /\ r.hints.len >= 1

\* C6: every Challenge in the cache or exposed as the current challenge is
\* fully populated and validated: three strings, three sequences of strings,
\* and at least one hint.
C6_ChallengesWellFormed ==
    /\ \A k \in DOMAIN cache : WellFormed(cache[k])
    /\ challenge # <<>> => WellFormed(challenge[1])

\* C7: at most one call that missed the cache for a given key is in flight
\* at a time.
C7_OneCallPerKey ==
    \A c \in calls : \A d \in calls : c.dateKey = d.dateKey => c = d

\* a step on which a thread is delivered and the completion is recorded
Completion_Recorded ==
    \E res \in ThreadResponses : ThreadAnswers(res) /\ ~callGemini(res).threw

\* the clock days that have an entry in the history
CompletedDays ==
    LET dates == {od_history[i].date : i \in 1 .. Len(od_history)}
    IN  {d \in ClockDays : IsoDate(d) \in dates}

\* S is a non-empty run of consecutive days
IsRun(S) == S # {} /\ \A d \in S : \A e \in S : (d .. e) \subseteq S

C10_GapResetsToOne ==
    [][ (Completion_Recorded
            /\ od_streak_date # todayKey(clock)
            /\ od_streak_date # IsoDate(clock - 1))
        => od_streak' = 1
      ]_vars

\* completed today and two days ago, not yesterday
C10_Witness ==
    /\ od_streak = 1
    /\ od_streak_date = todayKey(clock)
    /\ Len(od_history) = 2
    /\ od_history[1].date = todayKey(clock)
    /\ od_history[2].date = IsoDate(clock - 2)

\* the last day with a completion when one was recorded every day so far
LastCompletedDay == IF od_streak_date = todayKey(clock) THEN clock ELSE clock - 1

\* C11: the history holds at most 60 entries, most recent first; with a
\* completion on every day since the first, it holds the entries of the
\* latest days, one per day, and after 61 days the oldest is gone.
C11_HistoryKeepsLatestSixty ==
    LET n == LastCompletedDay - StartDay + 1 IN
    /\ Len(od_history) <= 60
    /\ Len(od_history) = (IF n <= 60 THEN n ELSE 60)
    /\ \A i \in 1 .. Len(od_history) :
          od_history[i].date = IsoDate(LastCompletedDay - i + 1)

\* the 61st completion has been recorded
C11_Witness ==
    /\ clock = StartDay + 60
    /\ od_streak_date = todayKey(clock)
    /\ Len(od_history) = 60
    /\ od_history[1].date = todayKey(clock)
    /\ od_history[60].date = IsoDate(StartDay + 1)

\* C12: the history never holds two entries with the same date: a completion
\* on a date already present removes the old entry and puts the new one at
\* the front, so the length does not grow.
C12_OneEntryPerDate ==
    [][ Completion_Recorded =>
          LET e == HistoryEntry(clock, threadCall[1].challenge, threadCall[1].analysis) IN
          /\ od_history' # <<>>
          /\ od_history'[1] = e
          /\ \A i \in 1 .. Len(od_history') : \A j \in 1 .. Len(od_history') :
                i # j => od_history'[i].date # od_history'[j].date
          /\ (\E i \in 1 .. Len(od_history) : od_history[i].date = e.date)
                => Len(od_history') = Len(od_history)
      ]_vars

\* today's entry has been replaced, with an older one behind it
C12_Witness ==
    /\ again
    /\ Len(od_history) = 2
    /\ od_history[1].date = todayKey(clock)
    /\ od_history[2].date # todayKey(clock)

\* the three parts of the ledger
Ledger == <<od_streak, od_streak_date, od_history>>

\* C13: the ledger changes only on the step that records a successful thread
\* generation, which writes all three parts at once; a failed generateThread
\* and every other handler (getFeedback, the obtain handlers, day
\* navigation, a page load) leave the three parts as they are.
C13_LedgerOnlyOnCompletion ==
    [][ /\ Ledger' # Ledger => Completion_Recorded
        /\ threadCall' # threadCall =>
              \A res \in ThreadResponses :
                 /\ (callGemini(res).threw /\ ThreadAnswers(res)) => Ledger' = Ledger
                 /\ (~callGemini(res).threw /\ ThreadAnswers(res)) =>
                       /\ od_streak' = bumpStreak(clock, od_streak, od_streak_date)
                       /\ od_streak_date' = todayKey(clock)
                       /\ od_history' # <<>>
                       /\ od_history'[1].date = todayKey(clock)
      ]_vars

\* a completion is on record, and feedback and day navigation came after it
C13_Witness ==
    /\ od_streak = 1
    /\ Len(od_history) = 1
    /\ loadingFeedback
    /\ offsetDays # 0
    /\ calls # {}

\* the triple that the specification assigns to day number n (n >= 0)
AssignedTo(n) ==
    [cat  |-> CATEGORIES[(n % 7) + 1],
     diff |-> DIFFICULTIES[((n \div 7) % 3) + 1],
     day  |-> n]

\* C14: getTodayMeta is a function of the clock day and offsetDays alone:
\* dayIndex = elapsed days + offsetDays + 1 and, for the day numbers from 0
\* on, category = categories[dayIndex mod 7] and difficulty =
\* difficulties[floor(dayIndex / 7) mod 3]; the call made by a handler and
\* the call made for the same day by the render return the same triple.
C14_AssignmentIsAFunctionOfTheDay ==
    LET n == clock + offsetDays + 1
        m == getTodayMeta(clock, offsetDays)
    IN  /\ m.day = n
        /\ n >= 0 => m = AssignedTo(n)
        /\ challenge # <<>> =>
              /\ challenge[1].day = m.day
              /\ challenge[1].cat = m.cat
              /\ challenge[1].diff = m.diff
        /\ \A c \in calls :
              c.offset = offsetDays => (c.day = m.day /\ c.cat = m.cat /\ c.diff = m.diff)

\* day 21 opens the fourth week: the user steps forward to it, the record
\* is not stored yet, and the call that changeDay starts carries the first
\* category and the first difficulty again
C14_Witness ==
    /\ clock + offsetDays + 1 = 21
    /\ offsetDays = 1
    /\ \E c \in calls : /\ c.offset = 1
                        /\ c.day = 21
                        /\ c.cat = CATEGORIES[1]
                        /\ c.diff = "Beginner"

\* C15: the assignment is total: for every day number, zero and negative
\* ones included, getTodayMeta returns a category of the category list and
\* a difficulty of the difficulty list.
C15_AssignmentTotal ==
    LET m == getTodayMeta(clock, offsetDays)
    IN  /\ m.cat \in {CATEGORIES[i] : i \in DOMAIN CATEGORIES}
        /\ m.diff \in {DIFFICULTIES[i] : i \in DOMAIN DIFFICULTIES}

C17_CallGeminiErrors ==
    [][ (keyTest # <<>> /\ keyTest' = <<>> /\ keyTest[1].kind = "http")
        => LET res    == keyTest[1]
               r      == callGemini(res)
               failed == res.status < 200 \/ res.status > 299
           IN  /\ r.threw = failed
               /\ (failed /\ res.envelope # "")
                     => /\ r.message = res.envelope
                        /\ apiKeyError' = "Key test failed: " \o res.envelope
                        /\ ~apiKey'
               /\ (failed /\ res.envelope = "")
                     => /\ r.message = "Gemini API error " \o ToString(res.status)
                        /\ apiKeyError' = "Key test failed: Gemini API error "
                                              \o ToString(res.status)
                        /\ ~apiKey'
               /\ (~failed /\ ~res.candidates)
                     => /\ r = Returned(EmptyText)
                        /\ apiKey'
                        /\ apiKeyError' = ""
      ]_vars

\* a test answered 429 with a quota message in the envelope: the form shows
\* the envelope's message
C17_Witness ==
    /\ ~apiKey
    /\ keyTest = <<>>
    /\ apiKeyError = "Key test failed: Resource has been exhausted (e.g. check quota)."

C19_OneKeyPerDay ==
    \A k1 \in DOMAIN cache : \A k2 \in DOMAIN cache :
        cache[k1].day = cache[k2].day => k1 = k2

\* C20: the challenge on screen carries the assignment computed when it
\* was put there: a generated record is built from it, and a cache hit
\* replaces the category label, the difficulty and the day number of the
\* stored record with the fresh ones, so the label in category is the label
\* of cat.
C20_HitUsesFreshAssignment ==
    challenge # <<>> => challenge[1].category = challenge[1].cat.label

\* the challenge on screen is shown under a category other than the one it
\* was generated and stored under
StaleCategory ==
    /\ challenge # <<>>
    /\ challenge[1].category # challenge[1].cat.label

C22_BackoffBeforeThirdAttempt ==
    [][ calls' # calls =>
        \A d \in calls' \ calls :
            /\ (\A c \in calls : c.id # d.id)
                  => (d.attempt = 1 /\ d.pc = "service" /\ d.timer = 0 /\ d.requests = 1)
            /\ (d.attempt = 3 /\ d.pc = "service")
                  => [d EXCEPT !.pc = "wait", !.timer = BackoffMs, !.requests = 2] \in calls
            /\ d.pc = "wait"
                  => /\ d.timer = BackoffMs
                     /\ [d EXCEPT !.pc = "service", !.timer = 0, !.attempt = @ - 1] \in calls
            /\ d.pc = "service" => d.timer = 0
      ]_vars

\* attempt 2 has failed and the call waits on its timer before attempt 3
C22_Witness ==
    \E c \in calls : c.attempt = 3 /\ c.pc = "wait" /\ c.timer = BackoffMs /\ c.requests = 2

\* ------------------------------------------------------------ recovery claims
\* an attempt of call c that fails with message m: nothing is stored or
\* shown; the call goes to the wait of its next attempt or, after the last
\* attempt, ends with m on the error screen
AttemptFails(c, m) ==
    /\ cache' = cache
    /\ challenge' = challenge
    /\ IF c.attempt < MaxAttempts
       THEN /\ calls' = (calls \ {c})
                          \cup {[c EXCEPT !.attempt = @ + 1, !.pc = "wait", !.timer = BackoffMs]}
            /\ genError' = genError
       ELSE /\ calls' = calls \ {c}
            /\ genError' = GenErrorMessage(m)

\* an attempt of call c that goes on with the document doc as the value
\* parseGeminiJSON returned
AttemptUses(c, doc) ==
    IF doc.type = "null"
    THEN AttemptFails(c, "Cannot read properties of null (reading 'title')")
    ELSE IF ~HasRequiredFields(doc)
    THEN AttemptFails(c, "Invalid challenge format - missing required fields")
    ELSE /\ challenge' = <<FullChallenge(doc, c)>>
         /\ cache' = saveChallenge(cache, c.dateKey, FullChallenge(doc, c))
         /\ calls' = calls \ {c}

\* C23: parseGeminiJSON makes its three attempts in order and the first that
\* succeeds wins: the second is made only when the first failed, the third
\* only when the second failed too, and the value the generation loop goes
\* on with is that of the first attempt that succeeded.
C23_FirstSuccessfulTierWins ==
    [][ \A c \in calls : \A res \in ParseTable[c.id] :
          ServiceAnswers(c, res) =>
            LET a == AttemptsTable[res.text]
                r == RecoverTable[res.text].result
            IN  /\ a.first.ok
                     => r.tiers = <<1>> /\ AttemptUses(c, AsDoc(a.first.value))
                /\ (~a.first.ok /\ a.second.ok)
                     => r.tiers = <<1, 2>> /\ AttemptUses(c, AsDoc(a.second.value))
                /\ (~a.first.ok /\ ~a.second.ok /\ a.third.ok)
                     => r.tiers = <<1, 2, 3>> /\ AttemptUses(c, AsDoc(a.third.value))
                /\ (~a.first.ok /\ ~a.second.ok /\ ~a.third.ok)
                     => r.threw /\ AttemptFails(c, r.message)
      ]_vars

\* the store holds a record of the second attempt (a line break collapsed)
\* and one of the third (a string cut at its escaped quote), none in flight
C23_Witness ==
    /\ calls = {}
    /\ \E k \in DOMAIN cache : cache[k].problem = StrVal(<<"line1", Space, "line2">>)
    /\ \E k \in DOMAIN cache : cache[k].problem = StrVal(<<"say", Space, Backslash>>)

\* C24: for every well-formed completion text, a valid document with nothing
\* around it, the first attempt succeeds and the record it returns is the
\* one that parsing the text directly gives.
C24_WellFormedTextParsesDirectly ==
    [][ \A c \in calls : \A res \in ParseTable[c.id] :
          (ServiceAnswers(c, res) /\ AttemptsTable[res.text].direct.ok) =>
             /\ RecoverTable[res.text].result.tiers = <<1>>
             /\ AttemptUses(c, AsDoc(AttemptsTable[res.text].direct.value))
      ]_vars

\* C25: for a completion text that wraps a valid document in fence markers,
\* with stray prose before or after it, the first or the second attempt
\* succeeds and yields the content of the embedded document.
C25_FencedDocumentRecovered ==
    [][ \A c \in calls : \A t \in WrappedTexts(c.id) :
          ServiceAnswers(c, Completion(t)) =>
             /\ ~RecoverTable[t].result.threw
             /\ RecoverTable[t].result.tiers \in {<<1>>, <<1, 2>>}
             /\ AttemptUses(c, GoodDoc(c.id))
      ]_vars

\* a string value with each raw line break, \n or \r\n, made a single space
Collapsed(v) ==
    LET kept == SelectSeq(v.items, LAMBDA ch : ch # CR)
    IN  StrVal([i \in 1 .. Len(kept) |-> IF kept[i] = NL THEN Space ELSE kept[i]])

\* C26: for a completion text whose quoted string values hold raw line
\* breaks and whose structure is valid otherwise, the second attempt
\* succeeds, each raw line break in a quoted span made a single space.
C26_RawLineBreaksCollapsed ==
    [][ \A c \in calls : \A v \in {TwoLines, TwoLinesCR, QuoteThenNL} :
          LET t == Stringify([GoodDoc(c.id) EXCEPT !.problem = v])
          IN  ServiceAnswers(c, Completion(t)) =>
                 /\ ~RecoverTable[t].result.threw
                 /\ RecoverTable[t].result.tiers = <<1, 2>>
                 /\ AttemptUses(c, [GoodDoc(c.id) EXCEPT !.problem = Collapsed(v)])
      ]_vars

\* the text holds every one of the six fields in field-colon-value form
HasAllFields(t) ==
    \A n \in DOMAIN REQUIRED : \E j \in 1 .. Len(t) : AfterKey(t, REQUIRED[n], j) > 0

\* C27: for a completion text without braces that holds all six required
\* fields in field-colon-value form, the third attempt succeeds with the
\* record of the six pieces; when one of the six is absent, parseGeminiJSON
\* fails with its error.
C27_SixFieldsWithoutBraces ==
    [][ \A c \in calls : \A t \in BareTexts(c.id) :
          ServiceAnswers(c, Completion(t)) =>
             IF HasAllFields(t)
             THEN /\ ~RecoverTable[t].result.threw
                  /\ RecoverTable[t].result.tiers = <<1, 2, 3>>
                  /\ AttemptUses(c, GoodDoc(c.id))
             ELSE /\ RecoverTable[t].result.threw
                  /\ AttemptFails(c, RecoverTable[t].result.message)
      ]_vars

\* C28: when all three attempts fail, the error parseGeminiJSON throws
\* carries the message of the first attempt, never that of the second or of
\* the third.
C28_ErrorCarriesFirstMessage ==
    [][ \A c \in calls : \A res \in ParseTable[c.id] :
          LET a == AttemptsTable[res.text] IN
          (ServiceAnswers(c, res) /\ ~a.first.ok /\ ~a.second.ok /\ ~a.third.ok) =>
             /\ AttemptFails(c, ParseError(a.first.message))
             /\ c.attempt = MaxAttempts =>
                  \A m \in {a.second.message, a.third.message} \ {a.first.message} :
                      genError' # GenErrorMessage(ParseError(m))
      ]_vars

\* the error screen shows the first message of a text on which the three
\* attempts failed with three different messages
C28_Witness ==
    /\ ~generating
    /\ calls = {}
    /\ \E b \in Bodies :
         LET a == AttemptsTable[ThreeFaults(b)]
         IN  /\ ~a.first.ok /\ ~a.second.ok /\ ~a.third.ok
             /\ a.second.message # a.first.message
             /\ a.third.message \notin {"", a.first.message, a.second.message}
             /\ genError = GenErrorMessage(ParseError(a.first.message))

\* documents in which one of the six fields is missing or empty
IncompleteDocs(b) ==
    { [GoodDoc(b) EXCEPT !.tools = JUndef],
      [GoodDoc(b) EXCEPT !.hints = JEmptyArr],
      [GoodDoc(b) EXCEPT !.problem = StrVal(<<>>)],
      [GoodDoc(b) EXCEPT !.title = StrVal(<<>>)] }

\* C29: when parseGeminiJSON returns a record in which one of the six
\* required fields is missing or empty, the attempt fails with the message
\* about missing required fields, nothing is cached for it, and the next
\* attempt, if one is left, follows.
C29_IncompleteRecordFailsAttempt ==
    [][ \A c \in calls : \A d \in IncompleteDocs(c.id) :
          ServiceAnswers(c, Completion(JsonText(d))) =>
             AttemptFails(c, "Invalid challenge format - missing required fields")
      ]_vars

\* C30: whenever no call of loadOrGenerateChallenge is in flight, each one
\* having finished by a cache hit, by a successful generation or by its
\* third failed attempt, the generating flag is false.
C30_GeneratingFlagCleared ==
    calls = {} => ~generating

\* a step on which a call of loadOrGenerateChallenge ends: by a cache hit, or
\* with the answer to its request (a success or the third failure)
ObtainEnds ==
    \/ ObtainStep /\ apiKey' /\ nextId' = nextId
    \/ \E c \in calls :
          /\ \A d \in calls' : d.id # c.id
          /\ \E res \in ChallengeResponses(c.id) : ServiceAnswers(c, res)

\* C31: when a call of loadOrGenerateChallenge has ended and none is in
\* flight, exactly one of the two holds: a challenge is present, or the
\* generation error is not empty; an error left by an earlier failed call
\* never stands beside an available challenge.
C31_ChallengeOrErrorNotBoth ==
    [][ (calls' = {} /\ ObtainEnds) => ((challenge' # <<>>) # (genError' # "")) ]_vars

\* C32: whenever a challenge is present and no call of
\* loadOrGenerateChallenge is in flight, the challenge is the one of the
\* selected day offset: its key is the key derived from offsetDays, on a day
\* the clock has shown.
C32_ChallengeOfSelectedOffset ==
    (challenge # <<>> /\ calls = {})
        => \E k \in StartDay .. clock : challenge[1].dateKey = DateKey(k, offsetDays)

\* the clock days for which a part of the ledger has a completion on record:
\* a history entry, or lastCompletedDate
RecordedDays ==
    CompletedDays \cup {d \in ClockDays : IsoDate(d) = od_streak_date}

\* the length of the longest run of consecutive days of S that ends at day e
RunEndingAt(S, e) ==
    Cardinality({n \in 1 .. Cardinality(S) : ((e - n + 1) .. e) \subseteq S})

\* C33: under a clock that only moves forward, the streak count is the
\* length of the longest run of consecutive days with a completion that
\* ends at lastCompletedDate, and it is 0 exactly when no completion has
\* been recorded.
C33_StreakIsCurrentRun ==
    /\ (od_streak = 0) = (RecordedDays = {})
    /\ RecordedDays # {}
          => \E e \in ClockDays :
                /\ IsoDate(e) = od_streak_date
                /\ od_streak = RunEndingAt(RecordedDays, e)

\* a step on which generateThread completes: the thread is delivered and the
\* ledger is written, on one day or as the day changes
ThreadCompletes ==
    \/ Completion_Recorded
    \/ \E res \in ThreadResponses : \E tick \in {2, 3} : ThreadAnswersAtMidnight(res, tick)

\* C34: after every completed generateThread lastCompletedDate is today and
\* is the date of the first history entry; and a zero streak, an empty
\* lastCompletedDate and an empty history hold together or not at all.
C34_LedgerPartsConsistent ==
    [][ /\ ThreadCompletes =>
              /\ od_streak_date' = todayKey(clock')
              /\ od_history' # <<>>
              /\ od_history'[1].date = od_streak_date'
        /\ (od_streak' = 0) = (od_streak_date' = "")
        /\ (od_streak_date' = "") = (od_history' = <<>>)
      ]_vars

\* C35: generateThread writes the streak and the history only when the
\* answer of the service gives at least one non-empty thread segment; an
\* answer without candidates (empty text, no segment) leaves the ledger as
\* it is.
C35_LedgerOnlyWithSegments ==
    [][ threadCall' # threadCall =>
          \A res \in ThreadResponses :
             (ThreadAnswers(res) /\ ~callGemini(res).threw
                  /\ SplitTweets(callGemini(res).text) = <<>>)
                => Ledger' = Ledger
      ]_vars

\* C36: a call that makes k attempts waits k - 1 times, each time for the
\* fixed interval and right before an attempt after the first.  Every
\* request after the first is issued by the step that ends a wait, so a
\* call has waited requests - 1 times: when the answer to attempt k arrives
\* the call has issued k requests, a wait only ever precedes attempt 2 or 3,
\* a failed attempt 1 or 2 starts exactly one wait, and the call ends on the
\* answer to a successful attempt or to attempt 3.
C36_WaitsOneLessThanAttempts ==
    [][ \A c \in calls :
          /\ BackoffElapsed(c) =>
                /\ c.timer = BackoffMs
                /\ c.attempt \in 2 .. MaxAttempts
                /\ c.requests = c.attempt - 1
                /\ [c EXCEPT !.pc = "service", !.timer = 0, !.requests = c.attempt] \in calls'
          /\ \A res \in ChallengeResponses(c.id) :
                ServiceAnswers(c, res) =>
                   /\ c.attempt \in 1 .. MaxAttempts
                   /\ c.requests = c.attempt
                   /\ (\A d \in calls' : d.id # c.id)
                         = (AttemptResult(res).ok \/ c.attempt = MaxAttempts)
                   /\ (~AttemptResult(res).ok /\ c.attempt < MaxAttempts)
                         => [c EXCEPT !.attempt = @ + 1, !.pc = "wait", !.timer = BackoffMs]
                               \in calls'
      ]_vars

\* one call awaits the answer to its first request, which it issued without
\* a wait, while another has waited once and awaits the answer to attempt 2
C36_Witness ==
    /\ \E c \in calls : c.attempt = 1 /\ c.pc = "service" /\ c.requests = 1 /\ c.timer = 0
    /\ \E c \in calls : c.attempt = 2 /\ c.pc = "service" /\ c.requests = 2 /\ c.timer = 0
====
